---- MODULE Spec2Model ----
(***************************************************************************)
(* A model of the push-notification relay (teamzidi/example-go-fcm).       *)
(*                                                                         *)
(* Modelled handlers (package handlers):                                   *)
(*   device   : PushDeviceHandler  (decodeData / send revision)            *)
(*   topic    : PushTopicHandler   (decodeData / send revision)            *)
(*   push     : PushHandler        (registry fan-out, SendToMultipleTokens)*)
(*   register : RegistrationHandler                                        *)
(* and the token registry store.DeviceStore with its mutex.                *)
(*                                                                         *)
(* Strings are sequences of fragments.  A fragment is an opaque piece of   *)
(* text; the fragment "retryable" stands for an occurrence of that         *)
(* substring, the fragment " " for a white-space character.  Concatenation *)
(* of strings is \o, so formatted error messages keep every fragment of    *)
(* the values that were formatted into them.                               *)
(*                                                                         *)
(* Byte strings that the code parses (the HTTP body, message.data, the     *)
(* decoded payload) are records that say what the parser finds in them.    *)
(***************************************************************************)
EXTENDS Integers, Sequences, FiniteSets, TLC

VARIABLES
    mock,     \* build tag: TRUE = handlers_mock.go (-tags mock), FALSE = handlers.go
    tokens,   \* DeviceStore.tokens, the set of keys of the map
    mu,       \* DeviceStore.mu: 0 = unlocked, otherwise the worker that holds it
    pc,       \* per worker: where its request handler stands
    req,      \* per worker: the HTTP request being served
    local,    \* per worker: the handler's local variables
    call,     \* per worker: the gateway invocation made for this request, or NoCall
    gw,       \* per worker: what the gateway returned, or NoOutcome
    resp      \* per worker: the HTTP response written, or NoResp

vars == <<mock, tokens, mu, pc, req, local, call, gw, resp>>

----------------------------------------------------------------------------
(* Bounds of the model *)

\* longest token / topic string (in fragments) a business payload may carry
MaxTargetLen == 2

\* number of concurrent request workers in SpecConc
NumWorkers == 2

Workers == 1..NumWorkers

\* TestDeviceStore_Concurrency: tokens each goroutine adds, and how many of its
\* own tokens it removes afterwards (tokensPerGoroutine, tokensToRemovePerGoroutine)
TokensPerGoroutine == 3

TokensToRemovePerGoroutine == 1

----------------------------------------------------------------------------
(* Strings *)

Str(alphabet, n) == UNION {[1..k -> alphabet] : k \in 0..n}

Empty == << >>

\* strings.Contains(s, frag) for a one-fragment needle
Contains(s, frag) == \E i \in 1..Len(s) : s[i] = frag

IsSpace(c) == c = " "

\* strings.TrimSpace
RECURSIVE TrimLeft(_)
TrimLeft(s) == IF s # Empty /\ IsSpace(Head(s)) THEN TrimLeft(Tail(s)) ELSE s

RECURSIVE TrimRight(_)
TrimRight(s) ==
    IF s # Empty /\ IsSpace(s[Len(s)]) THEN TrimRight(SubSeq(s, 1, Len(s) - 1)) ELSE s

TrimSpace(s) == TrimRight(TrimLeft(s))

----------------------------------------------------------------------------
(* Go errors.  code is the messaging error code when the dynamic type of the *)
(* value is *internal.FirebaseError, "none" for every other error type and   *)
(* "nil" for the nil error.  unwrap is the messaging code errors.Unwrap      *)
(* would lead to, "none" when the error wraps nothing.                       *)

NilErr == [code |-> "nil", msg |-> Empty, unwrap |-> "none"]

errors_New(msg) == [code |-> "none", msg |-> msg, unwrap |-> "none"]

FirebaseError(code) == [code |-> code, msg |-> <<code>>, unwrap |-> "none"]

\* fmt.Errorf(prefix + "%v", err): a new error value, err's text only
Errorf_v(prefix, err) == [code |-> "none", msg |-> prefix \o err.msg, unwrap |-> "none"]

\* fmt.Errorf(prefix + "%w", err): a *fmt.wrapError around err
Errorf_w(prefix, err) ==
    [code |-> "none", msg |-> prefix \o err.msg,
     unwrap |-> IF err.code \notin {"none", "nil"} THEN err.code ELSE err.unwrap]

\* messaging.IsInternal / IsUnavailable / IsQuotaExceeded: a type assertion
\* err.(*FirebaseError) on the value itself, then a comparison of its code
HasMessagingErrorCode(err, code) == err.code = code

\* fcm.IsRetryableError
IsRetryableError(err) ==
    /\ err # NilErr
    /\ \/ HasMessagingErrorCode(err, "internal")
       \/ HasMessagingErrorCode(err, "unavailable")
       \/ HasMessagingErrorCode(err, "quota-exceeded")

\* handlers.IsRetryable, //go:build !mock
IsRetryable_real(err) == IsRetryableError(err)

\* handlers.IsRetryable, //go:build mock
IsRetryable_mock(err) ==
    IF err = NilErr THEN FALSE ELSE Contains(err.msg, "retryable")

IsRetryable(err) == IF mock THEN IsRetryable_mock(err) ELSE IsRetryable_real(err)

----------------------------------------------------------------------------
(* Byte strings and what the parsers find in them *)

TargetAlphabet == {"a", "retryable"}

\* token / topic strings of a business payload
Targets == Str(TargetAlphabet, MaxTargetLen)

NotifTitles == {Empty, <<"T">>}

NotifBodies == {Empty, <<"B">>}

\* A decoded business payload (a byte string), by what json.Unmarshal finds:
\*   zero    : no bytes at all
\*   garbage : not JSON; text is what the bytes read as
\*   null    : the JSON value null
\*   typeerr : a JSON object whose "title" is a number
\*   object  : a JSON object with string fields title, body and <key>
Doc(syntax, key, title, body, target, text) ==
    [syntax |-> syntax, key |-> key, title |-> title, body |-> body,
     target |-> target, text |-> text]

ZeroBytes == Doc("zero", "none", Empty, Empty, Empty, Empty)

PayloadDocs ==
    {Doc("garbage", "none", Empty, Empty, Empty, t) : t \in {<<"hello">>, <<"retryable">>}}
    \cup {Doc("null", "none", Empty, Empty, Empty, Empty)}
    \cup {Doc("typeerr", "token", <<"5">>, <<"B">>, t, Empty) : t \in {<<"a">>, <<"retryable">>}}
    \cup {Doc("object", k, ti, bo, ta, Empty) :
            k \in {"token", "topic"}, ti \in NotifTitles, bo \in NotifBodies, ta \in Targets}

\* string(decodedData): the bytes read as text
Text(doc) ==
    CASE doc.syntax = "zero" -> Empty
      [] doc.syntax = "garbage" -> doc.text
      [] doc.syntax = "null" -> <<"null">>
      [] OTHER -> <<"{title:">> \o doc.title \o <<",body:">> \o doc.body
                  \o <<",", doc.key, ":">> \o doc.target \o <<"}">>

\* json.Unmarshal(decodedData, &payload) into a struct with string fields
\* title, body and (when key is not "none") key
json_Unmarshal(doc, key) ==
    CASE doc.syntax = "zero" ->
            [err |-> errors_New(<<"unexpected end of JSON input">>),
             Title |-> Empty, Body |-> Empty, Target |-> Empty]
      [] doc.syntax = "garbage" ->
            [err |-> errors_New(<<"invalid character looking for beginning of value">>),
             Title |-> Empty, Body |-> Empty, Target |-> Empty]
      [] doc.syntax = "typeerr" ->
            [err |-> errors_New(<<"json: cannot unmarshal number into Go struct field">>),
             Title |-> Empty, Body |-> Empty, Target |-> Empty]
      [] doc.syntax = "null" ->
            [err |-> NilErr, Title |-> Empty, Body |-> Empty, Target |-> Empty]
      [] OTHER ->
            [err |-> NilErr, Title |-> doc.title, Body |-> doc.body,
             Target |-> IF doc.key = key THEN doc.target ELSE Empty]

\* The string message.data: enc = "std" is the standard base64 text of bytes (the
\* empty string is the encoding of no bytes), enc = "illegal" a non-empty string
\* that is no base64 text.
EmptyData == [enc |-> "std", bytes |-> ZeroBytes]

IllegalData == [enc |-> "illegal", bytes |-> ZeroBytes]

\* base64.StdEncoding.EncodeToString
EncodeToString(doc) == [enc |-> "std", bytes |-> doc]

DataStrings == {EncodeToString(d) : d \in PayloadDocs} \cup {EmptyData, IllegalData}

\* base64.StdEncoding.DecodeString
DecodeString(s) ==
    IF s.enc = "std"
    THEN [err |-> NilErr, bytes |-> s.bytes]
    ELSE [err |-> errors_New(<<"illegal base64 data at input byte 0">>), bytes |-> ZeroBytes]

\* An HTTP request body, by what json.NewDecoder(body).Decode finds:
\*   empty   : no bytes (io.EOF)
\*   garbage : not JSON
\*   typeerr : JSON of the wrong shape for the struct
\*   null    : the JSON value null
\*   object  : a JSON object; data is message.data, token is the field token
HttpBody(syntax, data, token) == [syntax |-> syntax, data |-> data, token |-> token]

EnvelopeBodies ==
    {HttpBody(s, EmptyData, Empty) : s \in {"empty", "garbage", "typeerr", "null"}}
    \cup {HttpBody("object", d, Empty) : d \in DataStrings}

\* a decoder that leaves the struct at its zero value and reports no error on a
\* body that is no envelope
json_Decode_Envelope_lenient(body) ==
    IF body.syntax = "object"
    THEN [err |-> NilErr, Data |-> body.data]
    ELSE [err |-> NilErr, Data |-> EmptyData]

\* json.NewDecoder(r.Body).Decode(&pubSubReq), pubSubReq a PubSubPushRequest
json_Decode_Envelope(body) ==
    CASE body.syntax = "empty" -> [err |-> errors_New(<<"EOF">>), Data |-> EmptyData]
      [] body.syntax \in {"garbage", "typeerr"} ->
            [err |-> errors_New(<<"invalid character">>), Data |-> EmptyData]
      [] body.syntax = "null" -> [err |-> NilErr, Data |-> EmptyData]
      [] OTHER -> [err |-> NilErr, Data |-> body.data]

\* handlers.decodeData
decodeData(body) ==
    LET pubSubReq == json_Decode_Envelope(body)
        decoded == DecodeString(pubSubReq.Data)
    IN  IF pubSubReq.err # NilErr
        THEN [err |-> Errorf_v(<<"decoding Pub/Sub envelope: ">>, pubSubReq.err),
              bytes |-> ZeroBytes]
        ELSE IF pubSubReq.Data = EmptyData
        THEN [err |-> errors_New(<<"Pub/Sub message data is empty">>), bytes |-> ZeroBytes]
        ELSE IF decoded.err # NilErr
        THEN [err |-> Errorf_w(<<"decoding base64 data: ">>, decoded.err), bytes |-> ZeroBytes]
        ELSE [err |-> NilErr, bytes |-> decoded.bytes]

----------------------------------------------------------------------------
(* HTTP responses *)

NoResp == [status |-> 0, kind |-> "unwritten"]

\* w.WriteHeader(status) and nothing else
HeaderOnly(status) == [status |-> status, kind |-> "none"]

\* http.Error(w, text, status)
http_Error(text, status) == [status |-> status, kind |-> "text", text |-> text]

\* the {"status": "processed", "message_id": messageID} body
Processed(messageID) ==
    [status |-> 200, kind |-> "json", json_status |-> "processed", message_id |-> messageID]

\* the {"status": "acknowledged", "reason": reason} body of PushHandler
Acknowledged(reason) ==
    [status |-> 200, kind |-> "json", json_status |-> "acknowledged", reason |-> reason]

\* the {"status": "processed", "fcm_success_count": .., "fcm_failure_count": ..} body
ProcessedBatch(success, failure) ==
    [status |-> 200, kind |-> "json", json_status |-> "processed",
     fcm_success_count |-> success, fcm_failure_count |-> failure]

\* the {"message": text} body of RegistrationHandler
Message(status, text) == [status |-> status, kind |-> "json", message |-> text]

----------------------------------------------------------------------------
(* The gateway: what the external provider (or the test double) may return *)

MessageIds == {<<"m1">>, <<"m2">>}

MessagingCodes ==
    {"internal", "unavailable", "quota-exceeded", "invalid-argument",
     "registration-token-not-registered"}

\* errors of messaging.Client.Send / SendMulticast
ProviderErrors ==
    {FirebaseError(c) : c \in MessagingCodes}
    \cup {errors_New(<<"context deadline exceeded">>)}

\* errors a MockSendToToken / MockSendToTopic function returns
MockErrors ==
    {errors_New(m) : m \in {<<"retryable">>, <<"FCM send failed">>,
                            <<"fcm: simulated non-", "retryable", " error for test">>}}

NoOutcome == [kind |-> "none", id |-> Empty, err |-> NilErr, success |-> 0, failure |-> 0]

Sent(id) == [kind |-> "ok", id |-> id, err |-> NilErr, success |-> 0, failure |-> 0]

Failed(err) == [kind |-> "err", id |-> Empty, err |-> err, success |-> 0, failure |-> 0]

Batch(success, failure) ==
    [kind |-> "ok", id |-> Empty, err |-> NilErr, success |-> success, failure |-> failure]

GatewayErrors == IF mock THEN MockErrors ELSE ProviderErrors

\* outcomes of one single-message send
SendOutcomes == {Sent(id) : id \in MessageIds} \cup {Failed(e) : e \in GatewayErrors}

\* outcomes of one multicast send to n tokens
MulticastOutcomes(n) == {Batch(k, n - k) : k \in 0..n} \cup {Failed(e) : e \in GatewayErrors}

\* fcm.Client.SendToToken, given what c.msg.Send returns
Client_SendToToken(token, sent) ==
    IF token = Empty THEN Failed(errors_New(<<"token cannot be empty">>))
    ELSE IF sent.err # NilErr
    THEN Failed(Errorf_w(<<"sending message to token ">> \o token \o <<": ">>, sent.err))
    ELSE Sent(sent.id)

\* fcm.Client.SendToTopic, given what c.msg.Send returns
Client_SendToTopic(topic, sent) ==
    IF topic = Empty THEN Failed(errors_New(<<"topic cannot be empty">>))
    ELSE IF sent.err # NilErr
    THEN Failed(Errorf_w(<<"sending message to topic ">> \o topic \o <<": ">>, sent.err))
    ELSE Sent(sent.id)

\* MockFCMClient.SendToToken / SendToTopic with the mock function set: its result
MockFCMClient_Send(target, sent) == sent

\* h.fcmClient.SendToToken under the build tag
fcmClient_SendToToken(token, sent) ==
    IF mock THEN MockFCMClient_Send(token, sent) ELSE Client_SendToToken(token, sent)

\* h.fcmClient.SendToTopic under the build tag
fcmClient_SendToTopic(topic, sent) ==
    IF mock THEN MockFCMClient_Send(topic, sent) ELSE Client_SendToTopic(topic, sent)

\* fcm.FCMClient.SendToMultipleTokens, given what c.msg.SendMulticast returns
FCMClient_SendToMultipleTokens(tokenList, sent) ==
    IF Len(tokenList) = 0 THEN Batch(0, 0) ELSE sent

----------------------------------------------------------------------------
(* The token registry, store.DeviceStore (the map as the set of its keys) *)

\* DeviceStore.AddToken reporting true whether or not the token was there
DeviceStore_AddToken_alwaysNew(m, token) == [tokens |-> m \cup {token}, added |-> TRUE]

\* the critical section of DeviceStore.AddToken
DeviceStore_AddToken(m, token) == [tokens |-> m \cup {token}, added |-> token \notin m]

\* the critical section of DeviceStore.GetTokens: the slices a range over the map
\* may build, every key once, in any order
DeviceStore_GetTokens(m) ==
    {s \in [1..Cardinality(m) -> m] : \A i, j \in 1..Cardinality(m) : i # j => s[i] # s[j]}

\* DeviceStore.RemoveToken replacing the map by an empty one
DeviceStore_RemoveToken_clears(m, token) == IF token \in m THEN {} ELSE m

\* the critical section of DeviceStore.RemoveToken
DeviceStore_RemoveToken(m, token) == m \ {token}

----------------------------------------------------------------------------
(* Handlers.  A handler runs from the request to its next blocking point (the *)
(* registry's lock, the gateway call) or to its response; a Step says where  *)
(* it stands then.                                                            *)

NoLocal == [Title |-> Empty, Body |-> Empty, Target |-> Empty]

NoCall ==
    [op |-> "none", ctx |-> "none", target |-> Empty, tokens |-> << >>, title |-> Empty,
     body |-> Empty]

\* a call of the gateway client; every handler passes context.Background() as ctx
Invocation(op, target, tokenList, title, body) ==
    [op |-> op, ctx |-> "Background", target |-> target, tokens |-> tokenList,
     title |-> title, body |-> body]

Step(next, response, locals, invocation) ==
    [next |-> next, resp |-> response, local |-> locals, call |-> invocation]

Responds(response) == Step("done", response, NoLocal, NoCall)

Locals(payload) == [Title |-> payload.Title, Body |-> payload.Body, Target |-> payload.Target]

\* PushDeviceHandler.ServeHTTP after h.send returned (messageID, err)
PushDeviceHandler_respond(messageID, err) ==
    IF err # NilErr
    THEN IF IsRetryable(err)
         THEN http_Error("Failed to send notification via FCM (retryable)", 500)
         ELSE HeaderOnly(204)
    ELSE Processed(messageID)

\* PushDeviceHandler.send without the check "token is required in payload"
PushDeviceHandler_send_check_noToken(decodedData) ==
    LET payload == json_Unmarshal(decodedData, "token")
    IN  IF payload.err # NilErr
        THEN [code |-> "none", unwrap |-> "none",
              msg |-> <<"unmarshalling actual payload: ">> \o payload.err.msg
                      \o <<". Decoded data was: ">> \o Text(decodedData)]
        ELSE IF payload.Title = Empty THEN errors_New(<<"title is required in payload">>)
        ELSE IF payload.Body = Empty THEN errors_New(<<"body is required in payload">>)
        ELSE NilErr

\* PushDeviceHandler.send up to the gateway call: the error it returns, or NilErr
PushDeviceHandler_send_check(decodedData) ==
    LET payload == json_Unmarshal(decodedData, "token")
    IN  IF payload.err # NilErr
        THEN [code |-> "none", unwrap |-> "none",
              msg |-> <<"unmarshalling actual payload: ">> \o payload.err.msg
                      \o <<". Decoded data was: ">> \o Text(decodedData)]
        ELSE IF payload.Title = Empty THEN errors_New(<<"title is required in payload">>)
        ELSE IF payload.Body = Empty THEN errors_New(<<"body is required in payload">>)
        ELSE IF payload.Target = Empty THEN errors_New(<<"token is required in payload">>)
        ELSE NilErr

\* PushDeviceHandler.send returning "", nil on success, as PushTopicHandler.send does
PushDeviceHandler_send_return_noId(token, ret) ==
    IF ret.err # NilErr
    THEN [messageID |-> Empty,
          err |-> Errorf_v(<<"sending FCM message to token ">> \o token \o <<": ">>, ret.err)]
    ELSE [messageID |-> Empty, err |-> NilErr]

\* PushDeviceHandler.send once h.fcmClient.SendToToken returned: (messageID, err)
PushDeviceHandler_send_return(token, ret) ==
    IF ret.err # NilErr
    THEN [messageID |-> Empty,
          err |-> Errorf_v(<<"sending FCM message to token ">> \o token \o <<": ">>, ret.err)]
    ELSE [messageID |-> ret.id, err |-> NilErr]

\* PushDeviceHandler.ServeHTTP, from the request to the gateway call or the response
PushDeviceHandler_ServeHTTP(r) ==
    LET decoded == decodeData(r.body)
        err == PushDeviceHandler_send_check(decoded.bytes)
        payload == json_Unmarshal(decoded.bytes, "token")
    IN  IF r.method # "POST" THEN Responds(http_Error("Invalid request method", 405))
        ELSE IF decoded.err # NilErr THEN Responds(HeaderOnly(204))
        ELSE IF err # NilErr THEN Responds(PushDeviceHandler_respond(Empty, err))
        ELSE Step("gateway", NoResp, Locals(payload),
                  Invocation("SendToToken", payload.Target, << >>, payload.Title, payload.Body))

\* PushTopicHandler.ServeHTTP after h.send returned (messageID, err)
PushTopicHandler_respond(messageID, err) ==
    IF err # NilErr
    THEN IF IsRetryable(err)
         THEN http_Error("Failed to send notification via FCM (retryable)", 500)
         ELSE HeaderOnly(204)
    ELSE Processed(messageID)

\* PushTopicHandler.send up to the gateway call: the error it returns, or NilErr
PushTopicHandler_send_check(decodedData) ==
    LET payload == json_Unmarshal(decodedData, "topic")
    IN  IF payload.err # NilErr
        THEN [code |-> "none", unwrap |-> "none",
              msg |-> <<"unmarshalling payload: ">> \o payload.err.msg
                      \o <<". Decoded data was: ">> \o Text(decodedData)]
        ELSE IF payload.Title = Empty THEN errors_New(<<"title is required in payload">>)
        ELSE IF payload.Body = Empty THEN errors_New(<<"body is required in payload">>)
        ELSE IF payload.Target = Empty THEN errors_New(<<"topic is required in payload">>)
        ELSE NilErr

\* PushTopicHandler.send once h.fcmClient.SendToTopic returned: (messageID, err);
\* on success the code returns "", nil
PushTopicHandler_send_return(topic, ret) ==
    IF ret.err # NilErr
    THEN [messageID |-> Empty,
          err |-> Errorf_v(<<"sending FCM message to topic ">> \o topic \o <<": ">>, ret.err)]
    ELSE [messageID |-> Empty, err |-> NilErr]

\* PushTopicHandler.ServeHTTP answering 400 when decodeData fails
PushTopicHandler_ServeHTTP_badRequest(r) ==
    LET decoded == decodeData(r.body)
        err == PushTopicHandler_send_check(decoded.bytes)
        payload == json_Unmarshal(decoded.bytes, "topic")
    IN  IF r.method # "POST" THEN Responds(http_Error("Invalid request method", 405))
        ELSE IF decoded.err # NilErr
        THEN Responds(http_Error("Bad Request: invalid Pub/Sub message", 400))
        ELSE IF err # NilErr THEN Responds(PushTopicHandler_respond(Empty, err))
        ELSE Step("gateway", NoResp, Locals(payload),
                  Invocation("SendToTopic", payload.Target, << >>, payload.Title, payload.Body))

\* PushTopicHandler.ServeHTTP, from the request to the gateway call or the response
PushTopicHandler_ServeHTTP(r) ==
    LET decoded == decodeData(r.body)
        err == PushTopicHandler_send_check(decoded.bytes)
        payload == json_Unmarshal(decoded.bytes, "topic")
    IN  IF r.method # "POST" THEN Responds(http_Error("Invalid request method", 405))
        ELSE IF decoded.err # NilErr THEN Responds(HeaderOnly(204))
        ELSE IF err # NilErr THEN Responds(PushTopicHandler_respond(Empty, err))
        ELSE Step("gateway", NoResp, Locals(payload),
                  Invocation("SendToTopic", payload.Target, << >>, payload.Title, payload.Body))

\* PushHandler.ServeHTTP without the check of an empty message.data
PushHandler_ServeHTTP_noEmptyCheck(r) ==
    LET envelope == json_Decode_Envelope(r.body)
        decoded == DecodeString(envelope.Data)
        payload == json_Unmarshal(decoded.bytes, "none")
    IN  IF r.method # "POST" THEN Responds(http_Error("Invalid request method", 405))
        ELSE IF envelope.err # NilErr
        THEN Responds(http_Error("Invalid request body format", 400))
        ELSE IF decoded.err # NilErr
        THEN Responds(http_Error("Invalid message data encoding", 400))
        ELSE IF payload.err # NilErr
        THEN Responds(http_Error("Invalid actual message payload format", 400))
        ELSE IF payload.Title = Empty \/ payload.Body = Empty
        THEN Responds(Acknowledged("empty title or body"))
        ELSE Step("lock", NoResp, Locals(payload), NoCall)

\* PushHandler.ServeHTTP, from the request to h.deviceStore.GetTokens() or the response
PushHandler_ServeHTTP(r) ==
    LET envelope == json_Decode_Envelope(r.body)
        decoded == DecodeString(envelope.Data)
        payload == json_Unmarshal(decoded.bytes, "none")
    IN  IF r.method # "POST" THEN Responds(http_Error("Invalid request method", 405))
        ELSE IF envelope.err # NilErr
        THEN Responds(http_Error("Invalid request body format", 400))
        ELSE IF envelope.Data = EmptyData THEN Responds(Acknowledged("empty message data"))
        ELSE IF decoded.err # NilErr
        THEN Responds(http_Error("Invalid message data encoding", 400))
        ELSE IF payload.err # NilErr
        THEN Responds(http_Error("Invalid actual message payload format", 400))
        ELSE IF payload.Title = Empty \/ payload.Body = Empty
        THEN Responds(Acknowledged("empty title or body"))
        ELSE Step("lock", NoResp, Locals(payload), NoCall)

\* PushHandler.ServeHTTP calling the gateway also with an empty token list
PushHandler_dispatch_noEmptyCheck(locals, tokenList) ==
    Step("gateway", NoResp, locals,
         Invocation("SendToMultipleTokens", Empty, tokenList, locals.Title, locals.Body))

\* PushHandler.ServeHTTP passing only the first token of the list to the gateway
PushHandler_dispatch_firstOnly(locals, tokenList) ==
    IF Len(tokenList) = 0
    THEN Responds(Acknowledged("no registered devices"))
    ELSE Step("gateway", NoResp, locals,
              Invocation("SendToMultipleTokens", Empty, SubSeq(tokenList, 1, 1),
                         locals.Title, locals.Body))

\* PushHandler.ServeHTTP once GetTokens returned tokenList, to the gateway call or
\* the response
PushHandler_dispatch(locals, tokenList) ==
    IF Len(tokenList) = 0
    THEN Responds(Acknowledged("no registered devices"))
    ELSE Step("gateway", NoResp, locals,
              Invocation("SendToMultipleTokens", Empty, tokenList, locals.Title, locals.Body))

\* PushHandler.ServeHTTP answering 503 also when the batch has a failed token
PushHandler_respond_failOnPartial(ret) ==
    IF ret.err # NilErr \/ ret.failure > 0
    THEN http_Error("Failed to send notifications via FCM", 503)
    ELSE ProcessedBatch(ret.success, ret.failure)

\* PushHandler.ServeHTTP once SendToMultipleTokens returned (br, err)
PushHandler_respond(ret) ==
    IF ret.err # NilErr
    THEN http_Error("Failed to send notifications via FCM", 503)
    ELSE ProcessedBatch(ret.success, ret.failure)

\* const maxTokenLength
maxTokenLength == 4096

\* json.NewDecoder(r.Body).Decode(&req), req a RegisterRequest
json_Decode_Register(body) ==
    CASE body.syntax = "empty" -> [err |-> errors_New(<<"EOF">>), Token |-> Empty]
      [] body.syntax \in {"garbage", "typeerr"} ->
            [err |-> errors_New(<<"invalid character">>), Token |-> Empty]
      [] body.syntax = "null" -> [err |-> NilErr, Token |-> Empty]
      [] OTHER -> [err |-> NilErr, Token |-> body.token]

\* RegistrationHandler.ServeHTTP without the check of the method
RegistrationHandler_ServeHTTP_anyMethod(r) ==
    LET decoded == json_Decode_Register(r.body)
        trimmedToken == TrimSpace(decoded.Token)
    IN  IF decoded.err # NilErr
        THEN Responds(http_Error("Invalid request body: unable to decode JSON", 400))
        ELSE IF trimmedToken = Empty THEN Responds(http_Error("Token is required", 400))
        ELSE IF Len(trimmedToken) > maxTokenLength
        THEN Responds(http_Error("Token exceeds maximum length", 400))
        ELSE Step("lock", NoResp,
                  [Title |-> Empty, Body |-> Empty, Target |-> trimmedToken], NoCall)

\* RegistrationHandler.ServeHTTP without the check "Token is required"
RegistrationHandler_ServeHTTP_noEmptyCheck(r) ==
    LET decoded == json_Decode_Register(r.body)
        trimmedToken == TrimSpace(decoded.Token)
    IN  IF r.method # "POST" THEN Responds(http_Error("Invalid request method", 405))
        ELSE IF decoded.err # NilErr
        THEN Responds(http_Error("Invalid request body: unable to decode JSON", 400))
        ELSE IF Len(trimmedToken) > maxTokenLength
        THEN Responds(http_Error("Token exceeds maximum length", 400))
        ELSE Step("lock", NoResp,
                  [Title |-> Empty, Body |-> Empty, Target |-> trimmedToken], NoCall)

\* RegistrationHandler.ServeHTTP rejecting a token of maxTokenLength too
RegistrationHandler_ServeHTTP_lengthInclusive(r) ==
    LET decoded == json_Decode_Register(r.body)
        trimmedToken == TrimSpace(decoded.Token)
    IN  IF r.method # "POST" THEN Responds(http_Error("Invalid request method", 405))
        ELSE IF decoded.err # NilErr
        THEN Responds(http_Error("Invalid request body: unable to decode JSON", 400))
        ELSE IF trimmedToken = Empty THEN Responds(http_Error("Token is required", 400))
        ELSE IF Len(trimmedToken) >= maxTokenLength
        THEN Responds(http_Error("Token exceeds maximum length", 400))
        ELSE Step("lock", NoResp,
                  [Title |-> Empty, Body |-> Empty, Target |-> trimmedToken], NoCall)

\* RegistrationHandler.ServeHTTP passing req.Token, untrimmed, to AddToken
RegistrationHandler_ServeHTTP_storesRaw(r) ==
    LET decoded == json_Decode_Register(r.body)
        trimmedToken == TrimSpace(decoded.Token)
    IN  IF r.method # "POST" THEN Responds(http_Error("Invalid request method", 405))
        ELSE IF decoded.err # NilErr
        THEN Responds(http_Error("Invalid request body: unable to decode JSON", 400))
        ELSE IF trimmedToken = Empty THEN Responds(http_Error("Token is required", 400))
        ELSE IF Len(trimmedToken) > maxTokenLength
        THEN Responds(http_Error("Token exceeds maximum length", 400))
        ELSE Step("lock", NoResp,
                  [Title |-> Empty, Body |-> Empty, Target |-> decoded.Token], NoCall)

\* RegistrationHandler.ServeHTTP, from the request to h.deviceStore.AddToken or the
\* response
RegistrationHandler_ServeHTTP(r) ==
    LET decoded == json_Decode_Register(r.body)
        trimmedToken == TrimSpace(decoded.Token)
    IN  IF r.method # "POST" THEN Responds(http_Error("Invalid request method", 405))
        ELSE IF decoded.err # NilErr
        THEN Responds(http_Error("Invalid request body: unable to decode JSON", 400))
        ELSE IF trimmedToken = Empty THEN Responds(http_Error("Token is required", 400))
        ELSE IF Len(trimmedToken) > maxTokenLength
        THEN Responds(http_Error("Token exceeds maximum length", 400))
        ELSE Step("lock", NoResp,
                  [Title |-> Empty, Body |-> Empty, Target |-> trimmedToken], NoCall)

\* RegistrationHandler.ServeHTTP answering 201 whatever AddToken returned
RegistrationHandler_respond_alwaysCreated(added) ==
    Message(201, "Device token registered successfully")

\* RegistrationHandler.ServeHTTP once AddToken returned added
RegistrationHandler_respond(added) ==
    IF added
    THEN Message(201, "Device token registered successfully")
    ELSE Message(409, "Device token already exists")

----------------------------------------------------------------------------
(* Requests *)

Methods == {"POST", "GET"}

\* an *http.Request; cancelled says whether r.Context() is done
Request(handler, method, body) ==
    [handler |-> handler, method |-> method, body |-> body, cancelled |-> FALSE]

NoReq == Request("none", "none", HttpBody("empty", EmptyData, Empty))

DeviceRequests == {Request("device", m, b) : m \in Methods, b \in EnvelopeBodies}

TopicRequests == {Request("topic", m, b) : m \in Methods, b \in EnvelopeBodies}

PushRequests == {Request("push", m, b) : m \in Methods, b \in EnvelopeBodies}

Long(n) == [i \in 1..n |-> "x"]

\* the token strings registration requests carry
RawTokens ==
    {Empty, <<" ">>, <<"a">>, <<" ", "a", " ">>, <<"b">>,
     Long(maxTokenLength), <<" ">> \o Long(maxTokenLength), Long(maxTokenLength + 1)}

RegisterBodies ==
    {HttpBody(s, EmptyData, Empty) : s \in {"empty", "garbage", "typeerr", "null"}}
    \cup {HttpBody("object", EmptyData, t) : t \in RawTokens}

RegisterRequests == {Request("register", m, b) : m \in Methods, b \in RegisterBodies}

----------------------------------------------------------------------------
(* Actions *)

Init ==
    /\ mock \in BOOLEAN
    /\ tokens = {}
    /\ mu = 0
    /\ pc = [w \in Workers |-> "idle"]
    /\ req = [w \in Workers |-> NoReq]
    /\ local = [w \in Workers |-> NoLocal]
    /\ call = [w \in Workers |-> NoCall]
    /\ gw = [w \in Workers |-> NoOutcome]
    /\ resp = [w \in Workers |-> NoResp]

\* worker w takes request r; step is where the handler stands at its next blocking
\* point
Begin(w, r, step) ==
    /\ pc[w] = "idle"
    /\ req' = [req EXCEPT ![w] = r]
    /\ pc' = [pc EXCEPT ![w] = step.next]
    /\ local' = [local EXCEPT ![w] = step.local]
    /\ call' = [call EXCEPT ![w] = step.call]
    /\ resp' = [resp EXCEPT ![w] = step.resp]
    /\ gw' = [gw EXCEPT ![w] = NoOutcome]
    /\ UNCHANGED <<mock, tokens, mu>>

\* the handler of worker w moves on to step without touching the registry
Continue(w, step, outcome) ==
    /\ pc' = [pc EXCEPT ![w] = step.next]
    /\ local' = [local EXCEPT ![w] = step.local]
    /\ call' = [call EXCEPT ![w] = step.call]
    /\ resp' = [resp EXCEPT ![w] = step.resp]
    /\ gw' = [gw EXCEPT ![w] = outcome]
    /\ UNCHANGED <<mock, req>>

\* the handler of worker w writes its response
Finish(w, response, outcome) ==
    /\ pc' = [pc EXCEPT ![w] = "done"]
    /\ resp' = [resp EXCEPT ![w] = response]
    /\ gw' = [gw EXCEPT ![w] = outcome]
    /\ UNCHANGED <<mock, req, local, call>>

ServeDevice(w) == \E r \in DeviceRequests : Begin(w, r, PushDeviceHandler_ServeHTTP(r))

ServeTopic(w) == \E r \in TopicRequests : Begin(w, r, PushTopicHandler_ServeHTTP(r))

ServePush(w) == \E r \in PushRequests : Begin(w, r, PushHandler_ServeHTTP(r))

ServeRegister(w) == \E r \in RegisterRequests : Begin(w, r, RegistrationHandler_ServeHTTP(r))

\* s.mu.Lock() that returns although another goroutine holds the mutex
Lock_notExclusive(w) ==
    /\ pc[w] = "lock"
    /\ mu' = w
    /\ pc' = [pc EXCEPT ![w] = "crit"]
    /\ UNCHANGED <<mock, tokens, req, local, call, gw, resp>>

\* s.mu.Lock() returns to worker w
Lock(w) ==
    /\ pc[w] = "lock"
    /\ mu = 0
    /\ mu' = w
    /\ pc' = [pc EXCEPT ![w] = "crit"]
    /\ UNCHANGED <<mock, tokens, req, local, call, gw, resp>>

\* DeviceStore.AddToken's critical section, the deferred Unlock and the rest of
\* RegistrationHandler.ServeHTTP
AddToken(w) ==
    /\ pc[w] = "crit"
    /\ req[w].handler = "register"
    /\ mu = w
    /\ LET r == DeviceStore_AddToken(tokens, local[w].Target)
       IN  /\ tokens' = r.tokens
           /\ mu' = 0
           /\ Finish(w, RegistrationHandler_respond(r.added), NoOutcome)

\* GetTokens and PushHandler up to its gateway call with the mutex still held
GetTokens_keepsLock(w) ==
    /\ pc[w] = "crit"
    /\ req[w].handler = "push"
    /\ mu = w
    /\ \E tokenList \in DeviceStore_GetTokens(tokens) :
          /\ Continue(w, PushHandler_dispatch(local[w], tokenList), NoOutcome)
          /\ UNCHANGED <<tokens, mu>>

\* DeviceStore.GetTokens's critical section, the deferred Unlock and PushHandler up
\* to its gateway call or response
GetTokens(w) ==
    /\ pc[w] = "crit"
    /\ req[w].handler = "push"
    /\ mu = w
    /\ \E tokenList \in DeviceStore_GetTokens(tokens) :
          /\ mu' = 0
          /\ Continue(w, PushHandler_dispatch(local[w], tokenList), NoOutcome)
          /\ UNCHANGED tokens

\* PushDeviceHandler calling h.fcmClient.SendToToken again when the call failed
DeviceSendReturns_retries(w) ==
    /\ pc[w] = "gateway"
    /\ call[w].op = "SendToToken"
    /\ \E sent \in SendOutcomes :
          LET ret == fcmClient_SendToToken(call[w].target, sent)
              res == PushDeviceHandler_send_return(local[w].Target, ret)
          IN  IF res.err # NilErr
              THEN Continue(w, Step("gateway", NoResp, local[w], call[w]), sent)
              ELSE Finish(w, PushDeviceHandler_respond(res.messageID, res.err), sent)
    /\ UNCHANGED <<tokens, mu>>

\* h.fcmClient.SendToToken returns to PushDeviceHandler.send
DeviceSendReturns(w) ==
    /\ pc[w] = "gateway"
    /\ call[w].op = "SendToToken"
    /\ \E sent \in SendOutcomes :
          LET ret == fcmClient_SendToToken(call[w].target, sent)
              res == PushDeviceHandler_send_return(local[w].Target, ret)
          IN  Finish(w, PushDeviceHandler_respond(res.messageID, res.err), sent)
    /\ UNCHANGED <<tokens, mu>>

\* h.fcmClient.SendToTopic returns to PushTopicHandler.send
TopicSendReturns(w) ==
    /\ pc[w] = "gateway"
    /\ call[w].op = "SendToTopic"
    /\ \E sent \in SendOutcomes :
          LET ret == fcmClient_SendToTopic(call[w].target, sent)
              res == PushTopicHandler_send_return(local[w].Target, ret)
          IN  Finish(w, PushTopicHandler_respond(res.messageID, res.err), sent)
    /\ UNCHANGED <<tokens, mu>>

\* h.fcmClient.SendToMultipleTokens returns to PushHandler.ServeHTTP
MulticastReturns(w) ==
    /\ pc[w] = "gateway"
    /\ call[w].op = "SendToMultipleTokens"
    /\ \E sent \in MulticastOutcomes(Len(call[w].tokens)) :
          LET ret == IF mock THEN sent
                     ELSE FCMClient_SendToMultipleTokens(call[w].tokens, sent)
          IN  Finish(w, PushHandler_respond(ret), sent)
    /\ UNCHANGED <<tokens, mu>>

\* the response of worker w is on the wire; the worker is free again
Complete(w) ==
    /\ pc[w] = "done"
    /\ pc' = [pc EXCEPT ![w] = "idle"]
    /\ req' = [req EXCEPT ![w] = NoReq]
    /\ local' = [local EXCEPT ![w] = NoLocal]
    /\ call' = [call EXCEPT ![w] = NoCall]
    /\ gw' = [gw EXCEPT ![w] = NoOutcome]
    /\ resp' = [resp EXCEPT ![w] = NoResp]
    /\ UNCHANGED <<mock, tokens, mu>>

\* one request at a time
Next ==
    \/ ServeDevice(1)
    \/ ServeTopic(1)
    \/ ServePush(1)
    \/ ServeRegister(1)
    \/ Lock(1)
    \/ AddToken(1)
    \/ GetTokens(1)
    \/ DeviceSendReturns(1)
    \/ TopicSendReturns(1)
    \/ MulticastReturns(1)
    \/ Complete(1)

Spec == Init /\ [][Next]_vars

----------------------------------------------------------------------------
(* Requests served concurrently: net/http runs every handler on a goroutine of *)
(* its own, so the steps of NumWorkers requests interleave.                    *)

ConcurrentTokens == {<<"a">>, <<"b">>}

ConcurrentRequests ==
    {Request("register", "POST", HttpBody("object", EmptyData, t)) : t \in ConcurrentTokens}
    \cup {Request("push", "POST",
                  HttpBody("object",
                           EncodeToString(Doc("object", "none", <<"T">>, <<"B">>, Empty, Empty)),
                           Empty))}

ServeConcurrently(w) ==
    \E r \in ConcurrentRequests :
        Begin(w, r, IF r.handler = "register"
                    THEN RegistrationHandler_ServeHTTP(r)
                    ELSE PushHandler_ServeHTTP(r))

NextConc ==
    \E w \in Workers :
        \/ ServeConcurrently(w)
        \/ Lock(w)
        \/ AddToken(w)
        \/ GetTokens(w)
        \/ MulticastReturns(w)
        \/ Complete(w)

SpecConc == Init /\ [][NextConc]_vars

----------------------------------------------------------------------------
(* The queue delivers envelopes to all three delivery handlers while tokens   *)
(* are registered: every worker may be handed any of the envelopes, the one   *)
(* another worker is serving included (a redelivery).                         *)

\* the payload {"title":"T","body":"B",<key>:"a"} as message.data of an envelope
ValidEnvelope(key) ==
    HttpBody("object", EncodeToString(Doc("object", key, <<"T">>, <<"B">>, <<"a">>, Empty)),
             Empty)

DeliveredRequests ==
    {Request("device", "POST", ValidEnvelope("token")),
     Request("topic", "POST", ValidEnvelope("topic")),
     Request("push", "POST", ValidEnvelope("none")),
     Request("register", "POST", HttpBody("object", EmptyData, <<"a">>))}

ServeDelivered(w) ==
    \E r \in DeliveredRequests :
        Begin(w, r, CASE r.handler = "device" -> PushDeviceHandler_ServeHTTP(r)
                      [] r.handler = "topic" -> PushTopicHandler_ServeHTTP(r)
                      [] r.handler = "push" -> PushHandler_ServeHTTP(r)
                      [] OTHER -> RegistrationHandler_ServeHTTP(r))

NextDeliver ==
    \E w \in Workers :
        \/ ServeDelivered(w)
        \/ Lock(w)
        \/ AddToken(w)
        \/ GetTokens(w)
        \/ DeviceSendReturns(w)
        \/ TopicSendReturns(w)
        \/ MulticastReturns(w)
        \/ Complete(w)

SpecDeliver == Init /\ [][NextDeliver]_vars

----------------------------------------------------------------------------
(* Deliveries whose client may go away: net/http cancels r.Context() when the *)
(* connection of the request closes.                                          *)

\* the context of request r is cancelled while its handler runs
CancelRequest(w) ==
    /\ pc[w] \in {"lock", "crit", "gateway"}
    /\ ~req[w].cancelled
    /\ req' = [req EXCEPT ![w].cancelled = TRUE]
    /\ UNCHANGED <<mock, tokens, mu, pc, local, call, gw, resp>>

\* the ctx a gateway call was given is done: context.Background() never is, a
\* context derived from the request is once the request is cancelled
ContextDone(invocation, r) == invocation.ctx = "request" /\ r.cancelled

NextCancel ==
    \E w \in Workers :
        \/ ServeDelivered(w)
        \/ CancelRequest(w)
        \/ Lock(w)
        \/ AddToken(w)
        \/ GetTokens(w)
        \/ DeviceSendReturns(w)
        \/ TopicSendReturns(w)
        \/ MulticastReturns(w)
        \/ Complete(w)

SpecCancel == Init /\ [][NextCancel]_vars

----------------------------------------------------------------------------
(* The registry called directly, as the tests of package store call it: a     *)
(* caller is a goroutine that runs one DeviceStore method.  req holds the     *)
(* method and its argument, resp what the method returned to the caller.      *)

StoreTokens == {<<"a">>, <<"b">>}

StoreMethods == {"AddToken", "RemoveToken", "GetTokens"}

\* the call s.<method>(token); GetTokens takes no argument
StoreCall(method, token) == Request("store", method, HttpBody("object", EmptyData, token))

StoreCalls ==
    {StoreCall(m, t) : m \in {"AddToken", "RemoveToken"}, t \in StoreTokens}
    \cup {StoreCall("GetTokens", Empty)}

\* the argument of the call worker w runs
Arg(w) == req[w].body.token

\* return values
ReturnsBool(b) == [status |-> 0, kind |-> "bool", value |-> b]

ReturnsNothing == [status |-> 0, kind |-> "void"]

\* a slice handed to the caller; alias says whether it shares storage with the
\* registry
ReturnsList(alias, tokenList) ==
    [status |-> 0, kind |-> "list", alias |-> alias, value |-> tokenList]

\* the elements of a slice
Elements(tokenList) == {tokenList[i] : i \in 1..Len(tokenList)}

\* what the holder of a returned slice reads in it
Observed(ret) == IF ret.alias THEN tokens ELSE Elements(ret.value)

\* workers that are between s.mu.Lock() and the deferred s.mu.Unlock()
InCriticalSection == {w \in Workers : pc[w] = "crit"}

\* a map access by worker w races when another goroutine is inside a method body
Races(w) == InCriticalSection \ {w} # {}

\* the map after worker w stores result: Go leaves the outcome of a racing map
\* write undefined
MapAfterWrite(w, result) == IF Races(w) THEN SUBSET (tokens \cup result) ELSE {result}

\* goroutine w calls a DeviceStore method and reaches s.mu.Lock()
StoreBegin(w, c) ==
    /\ pc[w] = "idle"
    /\ req' = [req EXCEPT ![w] = c]
    /\ pc' = [pc EXCEPT ![w] = "lock"]
    /\ UNCHANGED <<mock, tokens, mu, local, call, gw, resp>>

CallStore(w) == \E c \in StoreCalls : StoreBegin(w, c)

\* DeviceStore.AddToken: the body and the deferred Unlock
StoreAdd(w) ==
    /\ pc[w] = "crit"
    /\ req[w].handler = "store"
    /\ req[w].method = "AddToken"
    /\ LET r == DeviceStore_AddToken(tokens, Arg(w))
       IN  /\ tokens' \in MapAfterWrite(w, r.tokens)
           /\ resp' = [resp EXCEPT ![w] = ReturnsBool(r.added)]
    /\ mu' = 0
    /\ pc' = [pc EXCEPT ![w] = "done"]
    /\ UNCHANGED <<mock, req, local, call, gw>>

\* DeviceStore.RemoveToken: delete(s.tokens, token) and the deferred Unlock
StoreRemove(w) ==
    /\ pc[w] = "crit"
    /\ req[w].handler = "store"
    /\ req[w].method = "RemoveToken"
    /\ tokens' \in MapAfterWrite(w, DeviceStore_RemoveToken(tokens, Arg(w)))
    /\ resp' = [resp EXCEPT ![w] = ReturnsNothing]
    /\ mu' = 0
    /\ pc' = [pc EXCEPT ![w] = "done"]
    /\ UNCHANGED <<mock, req, local, call, gw>>

\* DeviceStore.GetTokens handing out storage it shares with the registry
GetTokens_return_shared(tokenList) == ReturnsList(TRUE, tokenList)

\* the slice DeviceStore.GetTokens returns: built by append from a nil slice
GetTokens_return(tokenList) == ReturnsList(FALSE, tokenList)

\* DeviceStore.GetTokens: the body and the deferred Unlock
StoreList(w) ==
    /\ pc[w] = "crit"
    /\ req[w].handler = "store"
    /\ req[w].method = "GetTokens"
    /\ \E tokenList \in DeviceStore_GetTokens(tokens) :
          resp' = [resp EXCEPT ![w] = GetTokens_return(tokenList)]
    /\ mu' = 0
    /\ pc' = [pc EXCEPT ![w] = "done"]
    /\ UNCHANGED <<mock, tokens, req, local, call, gw>>

\* the caller overwrites the first element of the slice it was handed
OverwriteReturned(w) ==
    /\ pc[w] = "done"
    /\ req[w].handler = "store"
    /\ resp[w].kind = "list"
    /\ Len(resp[w].value) > 0
    /\ resp[w].value[1] # <<"z">>
    /\ resp' = [resp EXCEPT ![w].value[1] = <<"z">>]
    /\ tokens' = IF resp[w].alias
                 THEN (tokens \ {resp[w].value[1]}) \cup {<<"z">>}
                 ELSE tokens
    /\ UNCHANGED <<mock, mu, pc, req, local, call, gw>>

NextStore ==
    \E w \in Workers :
        \/ CallStore(w)
        \/ Lock(w)
        \/ StoreAdd(w)
        \/ StoreRemove(w)
        \/ StoreList(w)
        \/ OverwriteReturned(w)
        \/ Complete(w)

SpecStore == Init /\ [][NextStore]_vars

----------------------------------------------------------------------------
(* TestDeviceStore_Concurrency: every goroutine adds its own tokens; when all *)
(* have finished (wg.Wait) every goroutine removes the first of its tokens.   *)

\* fmt.Sprintf("token_g%d_t%d", goroutineID, j)
TokenOf(goroutineID, j) == <<"token_g", ToString(goroutineID), "_t", ToString(j)>>

\* goroutine w has returned from the call c
Returned(w, c) == pc[w] = "done" /\ req[w] = c

\* goroutine w has finished its loop of adds (wg.Done of the first round)
AddsFinished(w) ==
    \/ Returned(w, StoreCall("AddToken", TokenOf(w, TokensPerGoroutine - 1)))
    \/ req[w].method = "RemoveToken"

\* goroutine w has finished its loop of removes (wg.Done of the second round)
RemovesFinished(w) ==
    Returned(w, StoreCall("RemoveToken", TokenOf(w, TokensToRemovePerGoroutine - 1)))

\* goroutine w makes its next call c
GoroutineCalls(w, c) ==
    /\ req' = [req EXCEPT ![w] = c]
    /\ pc' = [pc EXCEPT ![w] = "lock"]
    /\ resp' = [resp EXCEPT ![w] = NoResp]
    /\ UNCHANGED <<mock, tokens, mu, local, call, gw>>

\* iteration j of the loop of adds
GoroutineAdds(w) ==
    \E j \in 0..(TokensPerGoroutine - 1) :
        /\ IF j = 0 THEN pc[w] = "idle"
           ELSE Returned(w, StoreCall("AddToken", TokenOf(w, j - 1)))
        /\ GoroutineCalls(w, StoreCall("AddToken", TokenOf(w, j)))

\* iteration j of the loop of removes, started after wg.Wait()
GoroutineRemoves(w) ==
    \E j \in 0..(TokensToRemovePerGoroutine - 1) :
        /\ \A v \in Workers : AddsFinished(v)
        /\ IF j = 0
           THEN Returned(w, StoreCall("AddToken", TokenOf(w, TokensPerGoroutine - 1)))
           ELSE Returned(w, StoreCall("RemoveToken", TokenOf(w, j - 1)))
        /\ GoroutineCalls(w, StoreCall("RemoveToken", TokenOf(w, j)))

NextRace ==
    \E w \in Workers :
        \/ GoroutineAdds(w)
        \/ GoroutineRemoves(w)
        \/ Lock(w)
        \/ StoreAdd(w)
        \/ StoreRemove(w)

SpecRace == Init /\ [][NextRace]_vars

----------------------------------------------------------------------------
(* The multi-token delivery handler: the revision of the device handler that  *)
(* takes the tokens from the request (PushDeviceRequest{Title, Body, Tokens}).*)
(* Its tests are in the repository, its code is not; it is written here from  *)
(* the specification's rules for the multi-token variant and from what the    *)
(* tests send and expect.                                                      *)

\* the gateway's multicast limit
maxMulticastTokens == 500

\* a request body: garbage is no JSON, object a JSON PushDeviceRequest
MultiBody(syntax, title, body, tokenList) ==
    [syntax |-> syntax, title |-> title, body |-> body, tokens |-> tokenList]

\* a slice of n tokens
TokenList(n) == [i \in 1..n |-> <<"t">>]

MultiTokenCounts == {0, 1, 2, maxMulticastTokens, maxMulticastTokens + 1}

MultiBodies ==
    {MultiBody("garbage", Empty, Empty, << >>)}
    \cup {MultiBody("object", t, b, TokenList(n)) :
             t \in NotifTitles, b \in NotifBodies, n \in MultiTokenCounts}

MultiRequests == {Request("multi", m, b) : m \in Methods, b \in MultiBodies}

\* the handler without the upper limit on the number of tokens
MultiTokenHandler_ServeHTTP_noLimit(r) ==
    IF r.method # "POST" THEN Responds(http_Error("Invalid request method", 405))
    ELSE IF r.body.syntax # "object" THEN Responds(http_Error("Invalid request body", 400))
    ELSE IF r.body.title = Empty \/ r.body.body = Empty
    THEN Responds(http_Error("Title and body are required", 400))
    ELSE IF Len(r.body.tokens) = 0
    THEN Responds(http_Error("Invalid number of tokens", 400))
    ELSE Step("gateway", NoResp,
              [Title |-> r.body.title, Body |-> r.body.body, Target |-> Empty],
              Invocation("SendToMultipleTokens", Empty, r.body.tokens,
                         r.body.title, r.body.body))

\* the handler, from the request to the gateway call or the response
MultiTokenHandler_ServeHTTP(r) ==
    IF r.method # "POST" THEN Responds(http_Error("Invalid request method", 405))
    ELSE IF r.body.syntax # "object" THEN Responds(http_Error("Invalid request body", 400))
    ELSE IF r.body.title = Empty \/ r.body.body = Empty
    THEN Responds(http_Error("Title and body are required", 400))
    ELSE IF Len(r.body.tokens) = 0 \/ Len(r.body.tokens) > maxMulticastTokens
    THEN Responds(http_Error("Invalid number of tokens", 400))
    ELSE Step("gateway", NoResp,
              [Title |-> r.body.title, Body |-> r.body.body, Target |-> Empty],
              Invocation("SendToMultipleTokens", Empty, r.body.tokens,
                         r.body.title, r.body.body))

\* the handler once SendToMultipleTokens returned (br, err)
MultiTokenHandler_respond(ret) ==
    IF ret.err # NilErr
    THEN http_Error("Failed to send notifications via FCM", 503)
    ELSE ProcessedBatch(ret.success, ret.failure)

\* batch results of a multicast to n tokens: none, one, all but one, all succeed
BatchOutcomes(n) ==
    {Batch(k, n - k) : k \in {0, 1, n - 1, n} \cap 0..n} \cup {Failed(e) : e \in GatewayErrors}

ServeMulti(w) == \E r \in MultiRequests : Begin(w, r, MultiTokenHandler_ServeHTTP(r))

\* SendToMultipleTokens returns to the multi-token handler
MultiSendReturns(w) ==
    /\ pc[w] = "gateway"
    /\ req[w].handler = "multi"
    /\ \E sent \in BatchOutcomes(Len(call[w].tokens)) :
          Finish(w, MultiTokenHandler_respond(sent), sent)
    /\ UNCHANGED <<tokens, mu>>

NextMulti ==
    \/ ServeMulti(1)
    \/ MultiSendReturns(1)
    \/ Complete(1)

SpecMulti == Init /\ [][NextMulti]_vars

----------------------------------------------------------------------------
(* What a request is, read off the request itself *)

DeliveryHandlers == {"device", "topic", "push"}

Serving(w) == pc[w] # "idle"

Answered(w) == pc[w] = "done"

IsPost(w) == req[w].method = "POST"

\* the body is a parseable envelope
EnvelopeParses(w) == req[w].body.syntax \in {"null", "object"}

\* message.data of a parseable envelope
DataOf(w) == IF req[w].body.syntax = "object" THEN req[w].body.data ELSE EmptyData

\* the envelope parses, data is base64 text of at least one byte
HasPayload(w) == EnvelopeParses(w) /\ DataOf(w).enc = "std" /\ DataOf(w) # EmptyData

PayloadOf(w) == DataOf(w).bytes

\* the JSON key that holds the target for the handler
TargetKey(w) == IF req[w].handler = "device" THEN "token" ELSE "topic"

\* the payload is a JSON object with a non-empty title, body and token / topic
PayloadValid(w) ==
    /\ HasPayload(w)
    /\ PayloadOf(w).syntax = "object"
    /\ PayloadOf(w).title # Empty
    /\ PayloadOf(w).body # Empty
    /\ PayloadOf(w).key = TargetKey(w)
    /\ PayloadOf(w).target # Empty

\* a POST to the device or topic handler with a valid envelope and payload
ValidDelivery(w) ==
    /\ req[w].handler \in {"device", "topic"}
    /\ IsPost(w)
    /\ PayloadValid(w)

GatewayInvoked(w) == call[w] # NoCall

\* the error the gateway returned is one the predicate of the build classifies as
\* retryable
ClassifiedRetryable(err) ==
    IF mock THEN Contains(err.msg, "retryable")
    ELSE err.code \in {"internal", "unavailable", "quota-exceeded"}

----------------------------------------------------------------------------
(* C1 *)

\* C1: in the device and topic handlers, a valid POST on which the gateway returns
\* an error classified retryable is answered 500.
C1_RetryableAnswered500 ==
    \A w \in Workers :
        (/\ Answered(w) /\ ValidDelivery(w) /\ GatewayInvoked(w)
         /\ gw[w].kind = "err" /\ ClassifiedRetryable(gw[w].err))
        => resp[w].status = 500

----------------------------------------------------------------------------
(* C2 *)

\* C2: in the device and topic handlers, a valid POST on which the gateway returns
\* an error not classified retryable is answered 204 with no body.
C2_OtherErrorAnswered204 ==
    \A w \in Workers :
        (/\ Answered(w) /\ ValidDelivery(w) /\ GatewayInvoked(w)
         /\ gw[w].kind = "err" /\ ~ClassifiedRetryable(gw[w].err))
        => resp[w] = [status |-> 204, kind |-> "none"]

----------------------------------------------------------------------------
(* C3 *)

\* C3: when the device handler's gateway call succeeds with message id M, the
\* response is 200 with the JSON body {status: "processed", message_id: M}.
C3_DeviceSuccessCarriesId ==
    \A w \in Workers :
        (/\ Answered(w) /\ req[w].handler = "device" /\ ValidDelivery(w)
         /\ GatewayInvoked(w) /\ gw[w].kind = "ok")
        => resp[w] = [status |-> 200, kind |-> "json",
                      json_status |-> "processed", message_id |-> gw[w].id]

C3_Witness ==
    \E w \in Workers :
        /\ Answered(w) /\ req[w].handler = "device" /\ ValidDelivery(w)
        /\ call[w].op = "SendToToken" /\ gw[w].kind = "ok"
        /\ gw[w].id = <<"m2">> /\ resp[w].status = 200

----------------------------------------------------------------------------
(* C4 *)

\* C4: when the topic handler's gateway call succeeds with message id M, the
\* response is 200 and its message_id is M, never the empty string.
C4_TopicSuccessCarriesId ==
    \A w \in Workers :
        (/\ Answered(w) /\ req[w].handler = "topic" /\ ValidDelivery(w)
         /\ GatewayInvoked(w) /\ gw[w].kind = "ok")
        => /\ resp[w].status = 200
           /\ resp[w].kind = "json"
           /\ resp[w].message_id = gw[w].id

----------------------------------------------------------------------------
(* C5 *)

\* a POST to a delivery handler whose envelope parses and whose message.data is ""
EmptyDataDelivery(w) ==
    /\ req[w].handler \in DeliveryHandlers
    /\ IsPost(w)
    /\ EnvelopeParses(w)
    /\ DataOf(w) = EmptyData

\* C5: a POST to a delivery handler whose envelope parses and whose message.data is
\* the empty string is answered with an Ack (204 without body by the device and
\* topic handlers, 200 with the acknowledged body by the registry fan-out handler),
\* and the gateway is never invoked for it.
C5_EmptyDataAcked ==
    \A w \in Workers :
        (Serving(w) /\ EmptyDataDelivery(w))
        => /\ Answered(w)
           /\ ~GatewayInvoked(w)
           /\ gw[w].kind = "none"
           /\ IF req[w].handler = "push"
              THEN resp[w] = [status |-> 200, kind |-> "json",
                              json_status |-> "acknowledged",
                              reason |-> "empty message data"]
              ELSE resp[w] = [status |-> 204, kind |-> "none"]

C5_Witness ==
    \E w \in Workers :
        /\ Answered(w) /\ EmptyDataDelivery(w)
        /\ req[w].handler = "push" /\ req[w].body.syntax = "object"
        /\ resp[w].status = 200

----------------------------------------------------------------------------
(* C6 *)

\* a POST to a delivery handler whose envelope parses and whose message.data is no
\* base64 text
IllegalDataDelivery(w) ==
    /\ req[w].handler \in DeliveryHandlers
    /\ IsPost(w)
    /\ EnvelopeParses(w)
    /\ DataOf(w).enc = "illegal"

----------------------------------------------------------------------------
(* C7 *)

\* a POST to the device or topic handler whose data decodes to a payload that is
\* not valid JSON or lacks a title, a body or the token / topic
BadPayloadDelivery(w) ==
    /\ req[w].handler \in {"device", "topic"}
    /\ IsPost(w)
    /\ HasPayload(w)
    /\ ~PayloadValid(w)

\* C7: in the device and topic handlers, a decoded payload that is not valid JSON
\* or has an empty title, body, or token / topic is answered 204 and the gateway is
\* never invoked.
C7_BadPayloadAcked ==
    \A w \in Workers :
        (Serving(w) /\ BadPayloadDelivery(w))
        => /\ Answered(w)
           /\ resp[w].status = 204
           /\ ~GatewayInvoked(w)

----------------------------------------------------------------------------
(* C8 *)

\* a POST to a delivery handler whose body is not a parseable envelope
UnparseableDelivery(w) ==
    /\ req[w].handler \in DeliveryHandlers
    /\ IsPost(w)
    /\ ~EnvelopeParses(w)

\* the status with which a delivery handler acknowledges an empty message.data
EmptyDataStatus(handler) == IF handler = "push" THEN 200 ELSE 204

----------------------------------------------------------------------------
(* C9 *)

\* C9: every gateway invocation a delivery handler makes carries a non-empty
\* title, a non-empty body and a non-empty target (a token, a topic, or a
\* non-empty list of non-empty tokens).
C9_InvocationComplete ==
    \A w \in Workers :
        GatewayInvoked(w)
        => /\ req[w].handler \in DeliveryHandlers
           /\ call[w].title # Empty
           /\ call[w].body # Empty
           /\ IF call[w].op = "SendToMultipleTokens"
              THEN /\ Len(call[w].tokens) > 0
                   /\ \A i \in 1..Len(call[w].tokens) : call[w].tokens[i] # Empty
              ELSE call[w].target # Empty

C9_Witness ==
    \E w \in Workers :
        /\ pc[w] = "gateway"
        /\ call[w].op = "SendToMultipleTokens"
        /\ Len(call[w].tokens) = 2
        /\ call[w].title = <<"T">>

----------------------------------------------------------------------------
(* C10 *)

\* C10: a request whose method is not POST, to the registration handler or to any
\* delivery handler, is answered 405 whatever its body holds, in one step that
\* neither invokes the gateway nor takes the lock nor changes the registry.
C10_NonPostRejected ==
    [][\A w \in Workers :
          (pc[w] = "idle" /\ pc'[w] # "idle" /\ req'[w].method # "POST")
          => /\ pc'[w] = "done"
             /\ resp'[w] = [status |-> 405, kind |-> "text",
                            text |-> "Invalid request method"]
             /\ call'[w] = NoCall
             /\ gw'[w] = NoOutcome
             /\ mu' = mu
             /\ tokens' = tokens]_vars

C10_Witness ==
    \E w \in Workers :
        /\ Answered(w)
        /\ req[w].handler = "register" /\ req[w].method = "GET"
        /\ req[w].body.syntax = "object" /\ req[w].body.token = <<"b">>
        /\ resp[w].status = 405
        /\ tokens = {<<"a">>}

----------------------------------------------------------------------------
(* C11 *)

\* the step in which the method worker w called returns
StoreReturns(w, method) ==
    /\ pc[w] = "crit"
    /\ pc'[w] = "done"
    /\ req[w].handler = "store"
    /\ req[w].method = method

\* C11: add(t) returns true exactly when t was absent before the call and false
\* exactly when it was present; after the call t is present and nothing else has
\* changed, so adding a token that is present leaves the registry and its size
\* as they were.
C11_AddReportsAbsence ==
    [][\A w \in Workers :
          StoreReturns(w, "AddToken")
          => /\ resp'[w] = [status |-> 0, kind |-> "bool", value |-> (Arg(w) \notin tokens)]
             /\ Arg(w) \in tokens'
             /\ tokens' \ {Arg(w)} = tokens \ {Arg(w)}
             /\ (Arg(w) \in tokens
                 => tokens' = tokens /\ Cardinality(tokens') = Cardinality(tokens))]_vars

C11_Witness ==
    \E w \in Workers :
        /\ pc[w] = "done"
        /\ req[w] = StoreCall("AddToken", <<"a">>)
        /\ resp[w].kind = "bool"
        /\ resp[w].value = FALSE
        /\ tokens = {<<"a">>, <<"b">>}

----------------------------------------------------------------------------
(* C12 *)

\* C12: no lost updates.  When all goroutines have added their distinct tokens
\* concurrently, the registry holds exactly that many entries; when they have
\* then concurrently removed some of them, it holds exactly that many fewer.
C12_NoLostUpdates ==
    /\ ((\A w \in Workers : AddsFinished(w) /\ req[w].method = "AddToken")
        => /\ Cardinality(tokens) = NumWorkers * TokensPerGoroutine
           /\ tokens = {TokenOf(w, j) : w \in Workers, j \in 0..(TokensPerGoroutine - 1)})
    /\ ((\A w \in Workers : RemovesFinished(w))
        => /\ Cardinality(tokens) =
                  NumWorkers * TokensPerGoroutine - NumWorkers * TokensToRemovePerGoroutine
           /\ tokens = {TokenOf(w, j) : w \in Workers,
                                         j \in TokensToRemovePerGoroutine..(TokensPerGoroutine - 1)})

C12_Witness ==
    /\ \A w \in Workers : RemovesFinished(w)
    /\ Cardinality(tokens) = NumWorkers * (TokensPerGoroutine - TokensToRemovePerGoroutine)
    /\ tokens # {}

----------------------------------------------------------------------------
(* C13 *)

\* C13: after remove(t) the token t is absent and every other token's membership
\* is as before; removing an absent token leaves the registry as it was; the
\* call reports nothing, in particular no error.
C13_RemoveOnlyThatToken ==
    [][\A w \in Workers :
          StoreReturns(w, "RemoveToken")
          => /\ Arg(w) \notin tokens'
             /\ \A t \in (tokens \cup tokens') \ {Arg(w)} : (t \in tokens') = (t \in tokens)
             /\ (Arg(w) \notin tokens => tokens' = tokens)
             /\ resp'[w] = [status |-> 0, kind |-> "void"]]_vars

C13_Witness ==
    \E w \in Workers :
        /\ pc[w] = "done"
        /\ req[w] = StoreCall("RemoveToken", <<"a">>)
        /\ resp[w].kind = "void"
        /\ tokens = {<<"b">>}

----------------------------------------------------------------------------
(* C14 *)

\* worker w holds a slice that GetTokens returned to it
HoldsList(w) == pc[w] = "done" /\ req[w].handler = "store" /\ resp[w].kind = "list"

\* C14: list() returns exactly the tokens in the registry, each once, and leaves
\* the registry as it is; the slice returned is a copy: calls that change the
\* registry later do not change what its holder reads in it, and the holder
\* changing the slice does not change the registry.
C14_ListIsSnapshotCopy ==
    [][\A w \in Workers :
          /\ StoreReturns(w, "GetTokens")
             => /\ resp'[w].kind = "list"
                /\ Elements(resp'[w].value) = tokens
                /\ Len(resp'[w].value) = Cardinality(tokens)
                /\ tokens' = tokens
          /\ (HoldsList(w) /\ HoldsList(w)')
             => IF resp'[w].value = resp[w].value
                THEN Observed(resp[w])' = Observed(resp[w])
                ELSE tokens' = tokens]_vars

C14_Witness ==
    \E w \in Workers :
        /\ HoldsList(w)
        /\ Len(resp[w].value) = 2
        /\ resp[w].value[1] = <<"z">>
        /\ tokens = {<<"a">>}

----------------------------------------------------------------------------
(* C15 *)

\* the token of a registration request, trimmed
TrimmedToken(w) == TrimSpace(req[w].body.token)

\* a POST to the registration handler whose body is a JSON object with a token
\* that is, once trimmed, non-empty and at most maxTokenLength long
ValidRegistration(w) ==
    /\ req[w].handler = "register"
    /\ IsPost(w)
    /\ req[w].body.syntax = "object"
    /\ TrimmedToken(w) # Empty
    /\ Len(TrimmedToken(w)) <= maxTokenLength

\* C15: a POST to the registration handler with a valid token is answered 201
\* exactly when the trimmed token was not in the registry, and it is in the
\* registry afterwards; it is answered 409 exactly when the token was already
\* there, and the registry is unchanged.
C15_CreatedOrConflict ==
    [][\A w \in Workers :
          (ValidRegistration(w)' /\ pc[w] # "done" /\ pc'[w] = "done")
          => /\ resp'[w].status \in {201, 409}
             /\ (resp'[w].status = 201) = (TrimmedToken(w)' \notin tokens)
             /\ (resp'[w].status = 409) = (TrimmedToken(w)' \in tokens)
             /\ tokens' = tokens \cup {TrimmedToken(w)'}
             /\ (resp'[w].status = 409 => tokens' = tokens)]_vars

C15_Witness ==
    \E w \in Workers :
        /\ Answered(w) /\ ValidRegistration(w)
        /\ req[w].body.token = <<" ", "a", " ">>
        /\ resp[w].status = 409
        /\ <<"a">> \in tokens

----------------------------------------------------------------------------
(* C16 *)

\* a POST to the registration handler whose body is a JSON object
RegistrationWithToken(w) ==
    /\ req[w].handler = "register"
    /\ IsPost(w)
    /\ req[w].body.syntax = "object"

\* C16: a token that is exactly 4096 long after trimming is accepted (201 or
\* 409); a token that is 4097 or more long after trimming is answered 400 and
\* never reaches the registry.
C16_LengthBoundary ==
    \A w \in Workers :
        (Serving(w) /\ RegistrationWithToken(w))
        => /\ (Len(TrimmedToken(w)) = 4096
               => /\ pc[w] \in {"lock", "crit", "done"}
                  /\ (Answered(w) => resp[w].status \in {201, 409}))
           /\ (Len(TrimmedToken(w)) >= 4097
               => /\ Answered(w)
                  /\ resp[w].status = 400
                  /\ TrimmedToken(w) \notin tokens)

C16_Witness ==
    \E w \in Workers :
        /\ Answered(w) /\ RegistrationWithToken(w)
        /\ Len(req[w].body.token) = 4097
        /\ Len(TrimmedToken(w)) = 4096
        /\ resp[w].status = 201

----------------------------------------------------------------------------
(* C17 *)

\* a POST to the registration handler whose body is not a JSON object with a
\* token, or whose token is empty or white space only, or longer than 4096 once
\* trimmed
InvalidRegistration(w) ==
    /\ req[w].handler = "register"
    /\ IsPost(w)
    /\ \/ req[w].body.syntax # "object"
       \/ TrimmedToken(w) = Empty
       \/ Len(TrimmedToken(w)) > 4096

\* C17: a POST to the registration handler whose body is not JSON, or whose
\* token is empty or only white space, or longer than 4096, is answered 400 in
\* one step that neither takes the registry's lock nor changes the registry.
C17_InvalidRegistrationRejected ==
    [][\A w \in Workers :
          (pc[w] = "idle" /\ pc'[w] # "idle" /\ InvalidRegistration(w)')
          => /\ pc'[w] = "done"
             /\ resp'[w].status = 400
             /\ resp'[w].kind = "text"
             /\ mu' = mu
             /\ tokens' = tokens]_vars

C17_Witness ==
    \E w \in Workers :
        /\ Answered(w) /\ InvalidRegistration(w)
        /\ req[w].body.syntax = "object" /\ req[w].body.token = <<" ">>
        /\ resp[w].status = 400
        /\ tokens = {<<"a">>, <<"b">>}

----------------------------------------------------------------------------
(* C18 *)

\* a POST to the multi-token handler with a title, a body and a list of tokens
MultiDelivery(w) ==
    /\ req[w].handler = "multi"
    /\ IsPost(w)
    /\ req[w].body.syntax = "object"
    /\ req[w].body.title # Empty
    /\ req[w].body.body # Empty

----------------------------------------------------------------------------
(* C19 *)

\* C19: when the fan-out handler's multicast call returns a batch result and no
\* error, the response is 200 with the batch's success and failure counts,
\* whatever the failure count is; the response is a 5xx, namely 503, only when
\* the multicast call itself returned an error.
C19_BatchResultIsSuccess ==
    \A w \in Workers :
        (Answered(w) /\ req[w].handler = "push")
        => /\ (GatewayInvoked(w) /\ gw[w].kind = "ok")
               => resp[w] = [status |-> 200, kind |-> "json", json_status |-> "processed",
                             fcm_success_count |-> gw[w].success,
                             fcm_failure_count |-> gw[w].failure]
           /\ (GatewayInvoked(w) /\ gw[w].kind = "err") => resp[w].status = 503
           /\ resp[w].status >= 500 => (GatewayInvoked(w) /\ gw[w].kind = "err")

C19_Witness ==
    \E w \in Workers :
        /\ Answered(w) /\ req[w].handler = "push"
        /\ Len(call[w].tokens) = 2
        /\ gw[w].kind = "ok" /\ gw[w].success = 0 /\ gw[w].failure = 2
        /\ resp[w].status = 200

----------------------------------------------------------------------------
(* C20 *)

\* C20: the registry's lock is never held while a gateway call is in progress: a
\* worker holds it only inside a registry method, never while it waits for the
\* gateway, so a registration can complete while a fan-out send is pending.
C20_LockNotHeldAcrossGateway ==
    \A w \in Workers :
        /\ (pc[w] = "gateway" => mu # w)
        /\ (mu = w => pc[w] = "crit")
        /\ ((\E v \in Workers : pc[v] = "gateway") /\ pc[w] = "lock" /\ InCriticalSection = {}
            => ENABLED Lock(w))

C20_Witness ==
    \E v, w \in Workers :
        /\ pc[v] = "gateway"
        /\ call[v].op = "SendToMultipleTokens"
        /\ Answered(w)
        /\ req[w].handler = "register"
        /\ resp[w].status = 201
        /\ TrimmedToken(w) \notin Elements(call[v].tokens)

----------------------------------------------------------------------------
(* C21 *)

\* a POST to the registry fan-out handler whose payload has a title and a body
ValidFanOut(w) ==
    /\ req[w].handler = "push"
    /\ IsPost(w)
    /\ HasPayload(w)
    /\ PayloadOf(w).syntax = "object"
    /\ PayloadOf(w).title # Empty
    /\ PayloadOf(w).body # Empty

\* worker w takes a step
Steps(w) == <<pc[w], call[w], gw[w], resp[w]>> # <<pc[w], call[w], gw[w], resp[w]>>'

\* worker w takes a request
Begins(w) == pc[w] = "idle" /\ pc'[w] # "idle"

\* a step of worker w that puts a gateway call in flight
Invokes(w) == Steps(w) /\ pc'[w] = "gateway" /\ call'[w] # NoCall

\* every answered delivery to one of handlers whose envelope is valid has had its
\* gateway call, and the call has returned
InvokedOnce(handlers) ==
    \A w \in Workers :
        (Answered(w) /\ req[w].handler \in handlers /\ (ValidDelivery(w) \/ ValidFanOut(w)))
        => GatewayInvoked(w) /\ gw[w].kind # "none"

\* no request makes a second gateway call: a call is put in flight only by a
\* handler that has none, the step after the call's return, failed or not, is the
\* response, and the response is followed by nothing but the next request
NoSecondInvocation ==
    \A w \in Workers :
        /\ (Invokes(w) => pc[w] # "gateway" /\ call[w] = NoCall)
        /\ (pc[w] = "gateway" /\ Steps(w)
            => pc'[w] = "done" /\ call'[w] = call[w] /\ gw'[w].kind \in {"ok", "err"})
        /\ (pc[w] = "done" /\ Steps(w) => pc'[w] = "idle" /\ call'[w] = NoCall)

\* the device or topic handler that takes a valid envelope puts its gateway call
\* in flight, whatever was delivered before
InvokesAtOnce ==
    \A w \in Workers : (Begins(w) /\ ValidDelivery(w)') => Invokes(w)

\* C21 as stated: each delivery of a valid envelope, to any delivery handler, causes
\* exactly one gateway invocation whether that invocation succeeds or fails.
C21_OneInvocationPerDelivery ==
    /\ []InvokedOnce(DeliveryHandlers)
    /\ [][NoSecondInvocation /\ InvokesAtOnce]_vars

\* the snapshot the fan-out handler of worker w took was empty
EmptySnapshot(w) ==
    /\ Answered(w) /\ ValidFanOut(w)
    /\ resp[w] = Acknowledged("no registered devices")

\* C21: each delivery of a valid envelope to the device or topic handler causes
\* exactly one gateway invocation, whether that invocation succeeds or fails; each
\* delivery of a valid envelope to the registry fan-out handler causes exactly one
\* when its registry snapshot holds a token and none when the snapshot is empty.
\* No handler calls the gateway a second time for a request, and a redelivered
\* envelope is sent again.
C21_OneInvocationUnlessNoTokens ==
    /\ []InvokedOnce({"device", "topic"})
    /\ [](\A w \in Workers :
             (Answered(w) /\ ValidFanOut(w))
             => IF GatewayInvoked(w)
                THEN call[w].tokens # << >> /\ gw[w].kind # "none"
                ELSE EmptySnapshot(w) /\ gw[w].kind = "none")
    /\ [][/\ NoSecondInvocation
          /\ InvokesAtOnce
          /\ \A w \in Workers :
                (pc[w] = "crit" /\ Steps(w) /\ ValidFanOut(w))
                => (Invokes(w) <=> tokens # {})]_vars

\* both workers were handed the same envelope; the first send failed and was
\* answered, the second is in flight
C21_Witness ==
    \E v, w \in Workers :
        /\ v # w
        /\ req[v] = req[w]
        /\ ValidDelivery(v)
        /\ Answered(v) /\ gw[v].kind = "err" /\ call[v].op = "SendToToken"
        /\ pc[w] = "gateway" /\ call[w] = call[v]

----------------------------------------------------------------------------
(* C22 *)

\* C22: the device or topic handler answers 5xx only if, for that request, the
\* gateway was invoked and returned an error; a request that fails envelope
\* decoding, payload JSON parsing or required-field validation is never answered
\* 5xx, whatever bytes its payload contains.
C22_ServerErrorOnlyFromGateway ==
    \A w \in Workers :
        (Answered(w) /\ req[w].handler \in {"device", "topic"} /\ resp[w].status >= 500)
        => /\ GatewayInvoked(w)
           /\ gw[w].kind = "err"
           /\ ValidDelivery(w)

----------------------------------------------------------------------------
(* C23 *)

\* C23: the token list the registry fan-out handler passes to the gateway's
\* multicast send is exactly the registry's contents at the moment the handler
\* takes its snapshot, every token once; the list of a call in flight does not
\* change, so a token registered after the snapshot is not in that send; and the
\* handlers never take a token out of the registry, so a token registered before
\* the request started is in the snapshot.
C23_SendsSnapshot ==
    [][\A w \in Workers :
          /\ (pc[w] = "crit" /\ req[w].handler = "push" /\ Steps(w) /\ tokens # {}
              => /\ Invokes(w)
                 /\ call'[w].op = "SendToMultipleTokens"
                 /\ Elements(call'[w].tokens) = tokens
                 /\ Len(call'[w].tokens) = Cardinality(tokens))
          /\ (pc[w] = "gateway" /\ pc'[w] # "idle" => call'[w] = call[w])
          /\ tokens \subseteq tokens']_vars

\* b was registered after the snapshot of a send that is still in flight; a, in the
\* registry before, is in the send
C23_Witness ==
    \E v, w \in Workers :
        /\ pc[v] = "gateway"
        /\ call[v].tokens = << <<"a">> >>
        /\ tokens = {<<"a">>, <<"b">>}
        /\ Answered(w)
        /\ req[w].handler = "register"
        /\ TrimmedToken(w) = <<"b">>
        /\ resp[w].status = 201

----------------------------------------------------------------------------
(* C24 *)

\* C24: when a valid envelope arrives at the registry fan-out handler while the
\* registry is empty, the handler responds 200 with status "acknowledged" and
\* reason "no registered devices", and the gateway is not invoked: the handler
\* reaches GetTokens without having answered, and with an empty registry the step
\* out of GetTokens is that response.
C24_EmptyRegistryAcknowledged ==
    [][\A w \in Workers :
          /\ (Begins(w) /\ ValidFanOut(w)'
              => pc'[w] = "lock" /\ resp'[w] = NoResp /\ call'[w] = NoCall)
          /\ (pc[w] = "lock" /\ ValidFanOut(w) /\ Steps(w)
              => pc'[w] = "crit" /\ resp'[w] = NoResp /\ call'[w] = NoCall)
          /\ (pc[w] = "crit" /\ ValidFanOut(w) /\ Steps(w) /\ tokens = {}
              => /\ pc'[w] = "done"
                 /\ resp'[w] = [status |-> 200, kind |-> "json",
                                json_status |-> "acknowledged",
                                reason |-> "no registered devices"]
                 /\ call'[w] = NoCall
                 /\ gw'[w] = NoOutcome)]_vars

C24_Witness ==
    \E w \in Workers :
        /\ EmptySnapshot(w)
        /\ tokens = {}
        /\ ~GatewayInvoked(w)
        /\ resp[w].status = 200

----------------------------------------------------------------------------
(* C25 *)

\* C25: the registration handler stores the trimmed token, not the raw one: the
\* registration that reaches the registry adds the token without its leading and
\* trailing whitespace and nothing else, so the registry never holds a string with
\* such whitespace, and a registration of any token that trims to a string already
\* in the registry is answered 409.
C25_StoresTrimmedToken ==
    [][\A w \in Workers :
          (pc[w] = "crit" /\ req[w].handler = "register" /\ Steps(w))
          => /\ tokens' = tokens \cup {TrimSpace(req[w].body.token)}
             /\ resp'[w].status = IF TrimSpace(req[w].body.token) \in tokens
                                  THEN 409 ELSE 201
             /\ \A t \in tokens' : TrimSpace(t) = t]_vars

\* " a " is answered 409 because a is registered
C25_Witness ==
    \E w \in Workers :
        /\ Answered(w)
        /\ req[w].handler = "register"
        /\ req[w].body.token = <<" ", "a", " ">>
        /\ resp[w] = Message(409, "Device token already exists")
        /\ tokens = {<<"a">>}

----------------------------------------------------------------------------
(* C26 *)

\* C26: request-scoped cancellation reaches the gateway call: the call is made
\* under the request's cancellation scope, so when the inbound request is cancelled
\* while the handler's gateway call is pending, the context of that call is done.
C26_CancellationReachesGateway ==
    \A w \in Workers :
        (pc[w] = "gateway" /\ req[w].cancelled) => ContextDone(call[w], req[w])

----------------------------------------------------------------------------
(* C27 *)

\* workers v and w serve registrations of the same trimmed token
SameRegistration(v, w) ==
    /\ v # w
    /\ req[v].handler = "register"
    /\ req[w].handler = "register"
    /\ TrimmedToken(v) = TrimmedToken(w)

\* C27: when registration requests for the same trimmed token run concurrently
\* against a registry that does not contain it, exactly one is answered 201 and
\* every other one 409, in every interleaving: the registration that finds the
\* token absent is answered 201 and leaves it in the registry, one that finds it
\* present is answered 409, a token once registered stays, and no two requests
\* that are answered at the same time were both answered 201.
C27_OneCreatedOthersConflict ==
    /\ [](\A v, w \in Workers :
             (SameRegistration(v, w) /\ Answered(v) /\ Answered(w))
             => /\ {resp[v].status, resp[w].status} \subseteq {201, 409}
                /\ ~(resp[v].status = 201 /\ resp[w].status = 201)
                /\ TrimmedToken(v) \in tokens)
    /\ [][\A w \in Workers :
             (pc[w] = "crit" /\ req[w].handler = "register" /\ Steps(w))
             => /\ pc'[w] = "done"
                /\ resp'[w].status = IF TrimmedToken(w) \in tokens THEN 409 ELSE 201
                /\ TrimmedToken(w) \in tokens'
                /\ tokens \subseteq tokens']_vars

\* both workers asked for a while it was absent; one got 201, the other 409
C27_Witness ==
    \E v, w \in Workers :
        /\ SameRegistration(v, w)
        /\ TrimmedToken(v) = <<"a">>
        /\ Answered(v) /\ resp[v].status = 201
        /\ Answered(w) /\ resp[w].status = 409
        /\ tokens = {<<"a">>}

----------------------------------------------------------------------------
(* C28 *)

\* C28: mutual exclusion on the registry: in every reachable state at most one
\* caller (add, remove or list) is inside the registry's critical section, and it
\* is the holder of the mutex, so no map access races and a list never observes
\* the map in the middle of an add or remove.
C28_MutualExclusion ==
    /\ Cardinality(InCriticalSection) <= 1
    /\ \A w \in Workers :
          /\ (pc[w] = "crit" <=> mu = w)
          /\ (pc[w] = "crit" => ~Races(w))

\* a list is inside the critical section while an add waits for the mutex
C28_Witness ==
    \E v, w \in Workers :
        /\ pc[v] = "crit"
        /\ req[v] = StoreCall("GetTokens", Empty)
        /\ pc[w] = "lock"
        /\ req[w].method = "AddToken"
        /\ ~ENABLED Lock(w)

----------------------------------------------------------------------------
(* C29 *)

\* what the registration handler lets through: a non-empty string without leading
\* or trailing whitespace, of at most maxTokenLength bytes
WellFormedToken(t) == t # Empty /\ TrimSpace(t) = t /\ Len(t) <= maxTokenLength

\* C29: when tokens enter the registry only through the registration handler,
\* after any sequence of registration requests every token in the registry is
\* non-empty, has no leading or trailing whitespace and has length at most 4096,
\* so the fan-out handler never forwards an empty token to the gateway.
C29_RegistryWellFormed ==
    /\ \A t \in tokens : WellFormedToken(t)
    /\ \A w \in Workers :
          call[w].op = "SendToMultipleTokens"
          => \A i \in 1..Len(call[w].tokens) : WellFormedToken(call[w].tokens[i])

\* a token of the greatest length allowed is forwarded to the gateway
C29_Witness ==
    \E w \in Workers :
        /\ pc[w] = "gateway"
        /\ call[w].op = "SendToMultipleTokens"
        /\ Long(maxTokenLength) \in Elements(call[w].tokens)
        /\ <<"a">> \in Elements(call[w].tokens)

----------------------------------------------------------------------------
(* Scheduling.  A goroutine that can run is run (the Go scheduler preempts),   *)
(* so a step that stays enabled is taken; a goroutine blocked in s.mu.Lock()   *)
(* gets the mutex if it is free again and again (sync.Mutex hands the lock to  *)
(* a waiter that starves); the gateway call of a handler returns.  Requests    *)
(* and direct calls arrive as they like.                                       *)

LiveRequests ==
    {Request("register", "POST", HttpBody("object", EmptyData, <<"a">>)),
     Request("push", "POST", ValidEnvelope("none")),
     StoreCall("RemoveToken", <<"a">>),
     StoreCall("GetTokens", Empty)}

\* worker w serves a request or calls a registry method
ServeOrCall(w) ==
    \E r \in LiveRequests :
        CASE r.handler = "register" -> Begin(w, r, RegistrationHandler_ServeHTTP(r))
          [] r.handler = "push" -> Begin(w, r, PushHandler_ServeHTTP(r))
          [] OTHER -> StoreBegin(w, r)

NextLive ==
    \E w \in Workers :
        \/ ServeOrCall(w)
        \/ Lock(w)
        \/ AddToken(w)
        \/ GetTokens(w)
        \/ StoreRemove(w)
        \/ StoreList(w)
        \/ MulticastReturns(w)
        \/ Complete(w)

\* the steps of worker w inside a registry method after Lock
RegistryBody(w) == AddToken(w) \/ GetTokens(w) \/ StoreRemove(w) \/ StoreList(w)

Fairness ==
    \A w \in Workers :
        /\ SF_vars(Lock(w))
        /\ WF_vars(RegistryBody(w))
        /\ WF_vars(MulticastReturns(w))

SpecLive == Init /\ [][NextLive]_vars /\ Fairness

----------------------------------------------------------------------------
(* C30 *)

\* C30: under fair scheduling every registry operation started by any number of
\* concurrent callers eventually returns, with the lock released, and every
\* handler invocation eventually produces exactly one response provided its
\* gateway call returns: a worker that has begun reaches its return or response,
\* whoever returns or answers does not hold the mutex, and a response once
\* written is not written again.
C30_EveryCallReturns ==
    /\ \A w \in Workers : Serving(w) ~> Answered(w)
    /\ \A w \in Workers : (mu = w) ~> (mu # w)
    /\ [](\A w \in Workers : Answered(w) => mu # w /\ resp[w] # NoResp)
    /\ [][\A w \in Workers :
             /\ (Answered(w) /\ Steps(w) => pc'[w] = "idle")
             /\ (resp[w] # NoResp /\ pc'[w] # "idle" /\ req[w].handler # "store"
                 => resp'[w] = resp[w])]_vars

\* a direct RemoveToken has returned while a registration and a fan-out waited
\* for the mutex behind it
C30_Witness ==
    \E v, w \in Workers :
        /\ v # w
        /\ Answered(v) /\ req[v] = StoreCall("RemoveToken", <<"a">>)
        /\ pc[w] = "crit" /\ req[w].handler \in {"register", "push"}
        /\ mu = w

====
